---- MODULE Spec2Model ----
(***************************************************************************)
(* updatectl: command resolution (findCommand), the dispatch in main, and   *)
(* the two settable flag value types StringFlag and BoolFlag of cmd.go.     *)
(*                                                                         *)
(* A string is a TLC string; a *string or *bool is a sequence of length 0   *)
(* (nil) or 1 (a pointer to the value).  A *Command is the node's record,   *)
(* and the nil *Command is NoCmd.                                           *)
(***************************************************************************)
EXTENDS Naturals, Sequences, FiniteSets, TLC

\* ---------------------------------------------------------------- bounds
\* longest command line (os.Args[1:]) explored
MaxArgs == 3
\* most Set calls made on one flag value
MaxSets == 2

\* ------------------------------------------------------------ exit codes
OK == 0
ERROR_API == 1
ERROR_USAGE == 2
ERROR_NO_COMMAND == 3
\* os.Exit(2) of package flag under flag.ExitOnError
FlagExit == 2
\* os.Exit(1) of log.Fatal
FatalExit == 1

cliName == "updatectl"

\* ------------------------------------------------------ command line words
\* words that are not flags (len < 2 or no leading '-')
Words == {"app", "list", "help", "x"}
\* words with a leading '-' and a flag name after the minuses
FlagToks == {"--version", "--help", "--user", "-v", "-bogus"}
\* the "--" terminator
Terminator == "--"
Tokens == Words \cup FlagToks \cup {Terminator}

\* the name of a flag word: the word without its one or two minuses
FlagName(tok) ==
    CASE tok = "--version" -> "version"
      [] tok = "--help" -> "help"
      [] tok = "--user" -> "user"
      [] tok = "-v" -> "v"
      [] tok = "-bogus" -> "bogus"

\* all sequences over S of length at most n
SeqUpTo(S, n) == UNION {[1..k -> S] : k \in 0..n}

\* ------------------------------------------------ flag.FlagSet.Parse
\* formal: the defined flags, a function from flag name to "bool" or "value".
\* The result: err is "none", "help" (flag.ErrHelp) or "error"; rest is
\* FlagSet.Args(); actual is the sequence of <<name, value>> settings made.
RECURSIVE parseFrom(_, _, _)
parseFrom(formal, args, actual) ==
    IF args = <<>> THEN [err |-> "none", rest |-> args, actual |-> actual]
    ELSE LET s == Head(args) IN
      IF s = Terminator
        THEN [err |-> "none", rest |-> Tail(args), actual |-> actual]
      ELSE IF s \notin FlagToks
        THEN [err |-> "none", rest |-> args, actual |-> actual]
      ELSE LET name == FlagName(s)
               after == Tail(args) IN
        IF name \notin DOMAIN formal
          THEN [err |-> IF name = "help" THEN "help" ELSE "error",
                rest |-> after, actual |-> actual]
        ELSE IF formal[name] = "bool"
          THEN parseFrom(formal, after, Append(actual, <<name, "true">>))
        ELSE IF after = <<>>
          THEN [err |-> "error", rest |-> after, actual |-> actual]
        ELSE parseFrom(formal, Tail(after),
                       Append(actual, <<name, Head(after)>>))

FlagSetParse(formal, args) == parseFrom(formal, args, <<>>)

\* the value of flag name after the settings in actual, dflt if never set
RECURSIVE Lookup(_, _, _)
Lookup(actual, name, dflt) ==
    IF actual = <<>> THEN dflt
    ELSE LET last == actual[Len(actual)] IN
         IF last[1] = name THEN last[2]
         ELSE Lookup(SubSeq(actual, 1, Len(actual) - 1), name, dflt)

\* ---------------------------------------------------- global flag set
globalFlagSet ==
    [server |-> "value", debug |-> "bool", version |-> "bool",
     help |-> "bool", user |-> "value", key |-> "value"]

\* the defaults of init(), with the three environment variables unset
DefaultGlobalFlags ==
    [Server |-> "http://localhost:8000", User |-> "", Key |-> "",
     Debug |-> FALSE, Version |-> FALSE, Help |-> FALSE]

BindGlobalFlags(actual) ==
    [Server |-> Lookup(actual, "server", DefaultGlobalFlags.Server),
     User |-> Lookup(actual, "user", DefaultGlobalFlags.User),
     Key |-> Lookup(actual, "key", DefaultGlobalFlags.Key),
     Debug |-> Lookup(actual, "debug", "false") = "true",
     Version |-> Lookup(actual, "version", "false") = "true",
     Help |-> Lookup(actual, "help", "false") = "true"]

\* ------------------------------------------------------- command tree
NoFlags == [n \in {} |-> "bool"]

NoCmd == [Name |-> "", Flags |-> NoFlags, Run |-> FALSE,
          Subcommands |-> <<>>, nil |-> TRUE]

Command(name, formal, run, subs) ==
    [Name |-> name, Flags |-> formal, Run |-> run, Subcommands |-> subs,
     nil |-> FALSE]

VFlag == [v |-> "bool"]

\* a subcommand named by its full path, and one named by its own word only
cmdAppList == Command("app list", VFlag, TRUE, <<>>)
cmdList == Command("list", VFlag, TRUE, <<>>)
cmdHelp == Command("help", NoFlags, TRUE, <<>>)
\* "app" as a pure grouping node (no Run) and as a node that also has a Run
cmdApp(run) == Command("app", VFlag, run, <<cmdList, cmdAppList>>)

Registries == {<<cmdApp(run), cmdHelp>> : run \in BOOLEAN}

\* ------------------------------------------------------- findCommand
\* SearchKey as it would be if only the word itself were compared
SearchKeyWordOnly(search, arg) == arg

\* the string compared with each candidate's Name
SearchKey(search, arg) ==
    IF search = "" THEN arg ELSE search \o " " \o arg

\* FirstMatch as it would be if cmd = c were assigned before the comparison
FirstMatchOrLast(cmds, key) ==
    IF \E i \in 1..Len(cmds) : cmds[i].Name = key
      THEN CHOOSE i \in 1..Len(cmds) :
             /\ cmds[i].Name = key
             /\ \A j \in 1..(i - 1) : cmds[j].Name # key
      ELSE Len(cmds)

\* index of the first candidate whose Name is key, 0 if there is none
FirstMatch(cmds, key) ==
    IF \E i \in 1..Len(cmds) : cmds[i].Name = key
      THEN CHOOSE i \in 1..Len(cmds) :
             /\ cmds[i].Name = key
             /\ \A j \in 1..(i - 1) : cmds[j].Name # key
      ELSE 0

\* ParseFailed as it would be if flag.ErrHelp were not counted as a failure
ParseFailedNotHelp(p) == p.err = "error"

\* errHelp != nil after c.Flags.Parse(args[1:])
ParseFailed(p) == p.err # "none"

\* Deeper as it would be without the subCmd != nil test
DeeperUnguarded(c, sub) == sub

\* the command findCommand keeps after the recursive call returned sub
Deeper(c, sub) == IF sub.nil THEN c ELSE sub

\* The result of findCommand: cmd and name are the two return values; exited
\* tells that os.Exit(ERROR_USAGE) was called inside, after
\* printCommandUsage(usage); parses lists, in order, the flag sets parsed, each
\* with the arguments it was left holding; miss is the depth (1 = top level)
\* of the call whose scan matched no candidate, 0 if every scan matched.
RECURSIVE findFrom(_, _, _, _)
findFrom(search, args, cmds, depth) ==
    IF Len(args) < 1
      THEN [cmd |-> NoCmd, name |-> "", exited |-> FALSE, usage |-> NoCmd,
            parses |-> <<>>, miss |-> 0]
    ELSE
      LET key == SearchKey(search, args[1])
          i == FirstMatch(cmds, key)
      IN IF i = 0
           THEN [cmd |-> NoCmd, name |-> key, exited |-> FALSE,
                 usage |-> NoCmd, parses |-> <<>>, miss |-> depth]
         ELSE
           LET c == cmds[i]
               p == FlagSetParse(c.Flags, Tail(args))
               here == <<[of |-> c.Name, args |-> p.rest, ok |-> p.err = "none"]>>
           IN IF ParseFailed(p)
                THEN [cmd |-> c, name |-> key, exited |-> TRUE, usage |-> c,
                      parses |-> here, miss |-> 0]
              ELSE IF Len(c.Subcommands) # 0
                THEN LET sub == findFrom(key, p.rest, c.Subcommands, depth + 1)
                     IN [cmd |-> Deeper(c, sub.cmd),
                         name |-> sub.name,
                         exited |-> sub.exited,
                         usage |-> sub.usage,
                         parses |-> here \o sub.parses,
                         miss |-> sub.miss]
              ELSE [cmd |-> c, name |-> key, exited |-> FALSE, usage |-> NoCmd,
                    parses |-> here, miss |-> 0]

findCommand(search, args, cmds) == findFrom(search, args, cmds, 1)

\* Command.Flags.Args() of the command named n after the parses in ps
RECURSIVE FlagArgs(_, _)
FlagArgs(ps, n) ==
    IF ps = <<>> THEN <<>>
    ELSE LET last == ps[Len(ps)] IN
         IF last.of = n THEN last.args
         ELSE FlagArgs(SubSeq(ps, 1, Len(ps) - 1), n)

\* --------------------------------------------------------------- state
VARIABLES
    pc,          \* where main is: "start", "parsed", "resolved", "handled", "exited"
    osArgs,      \* os.Args[1:]
    commands,    \* the registry of top-level commands
    globalFlags, \* the globalFlags record
    given,       \* globalFlagSet.Args() as the global parse left it
    args,        \* main's local args
    cmd,         \* main's local cmd (NoCmd is nil)
    name,        \* main's local name
    parses,      \* the command flag sets parsed so far, with their Args()
    miss,        \* depth of the findCommand scan that matched nothing, 0 if none
    findCalls,   \* calls main has made to findCommand
    clients,     \* API clients constructed by getHawkClient
    runs,        \* handler invocations: <<command Name, positional args>>
    hret,        \* the handler's return value, <<>> before it returns
    out,         \* what was printed, in order
    exit,        \* the process exit code, <<>> while running
    sfValue,     \* StringFlag.value
    sfSets,      \* StringFlag.Set calls made
    sfLast,      \* argument of the latest StringFlag.Set call
    sfErr,       \* result of the latest StringFlag.Set call
    bfValue,     \* BoolFlag.value
    bfPrev,      \* BoolFlag.value before the latest BoolFlag.Set call
    bfSets,      \* BoolFlag.Set calls made
    bfArg,       \* argument of the latest BoolFlag.Set call
    bfRes        \* result of the latest BoolFlag.Set call

mainVars == <<pc, osArgs, commands, globalFlags, given, args, cmd, name, parses, miss,
              findCalls, clients, runs, hret, out, exit>>
sfVars == <<sfValue, sfSets, sfLast, sfErr>>
bfVars == <<bfValue, bfPrev, bfSets, bfArg, bfRes>>
vars == <<mainVars, sfVars, bfVars>>

Printed(k, a) == [k |-> k, a |-> a]

\* printCommandUsage(c)
printCommandUsage(c) == <<Printed("usage", c.Name)>>
\* printGlobalUsage()
printGlobalUsage == <<Printed("globalUsage", cliName)>>
\* printVersion(out)
printVersion == <<Printed("version", cliName)>>
\* what a FlagSet writes when Parse fails: the error (none for ErrHelp) and
\* its own default usage
flagFailure(setName) == <<Printed("flagError", setName)>>

ExitCodes == {OK, ERROR_API, ERROR_USAGE, ERROR_NO_COMMAND}

\* ------------------------------------------------------------ main
InitMain ==
    /\ pc = "start"
    /\ osArgs \in SeqUpTo(Tokens, MaxArgs)
    /\ commands \in Registries
    /\ globalFlags = DefaultGlobalFlags
    /\ given = <<>>
    /\ args = <<>>
    /\ cmd = NoCmd
    /\ name = ""
    /\ parses = <<>>
    /\ miss = 0
    /\ findCalls = 0
    /\ clients = 0
    /\ runs = <<>>
    /\ hret = <<>>
    /\ out = <<>>
    /\ exit = <<>>

\* globalFlagSet.Parse(os.Args[1:]) fails: flag.ExitOnError ends the process;
\* the flags before the failing word are already bound
GlobalParseExit ==
    /\ pc = "start"
    /\ LET p == FlagSetParse(globalFlagSet, osArgs) IN
         /\ p.err # "none"
         /\ globalFlags' = BindGlobalFlags(p.actual)
         /\ given' = p.rest
         /\ out' = out \o flagFailure(cliName)
         /\ exit' = <<FlagExit>>
         /\ pc' = "exited"
    /\ UNCHANGED <<osArgs, commands, args, cmd, name, parses, miss,
                   findCalls, clients, runs, hret>>
    /\ UNCHANGED <<sfVars, bfVars>>

\* globalFlagSet.Parse(os.Args[1:]) succeeds; args = globalFlagSet.Args()
GlobalParse ==
    /\ pc = "start"
    /\ LET p == FlagSetParse(globalFlagSet, osArgs) IN
         /\ p.err = "none"
         /\ globalFlags' = BindGlobalFlags(p.actual)
         /\ given' = p.rest
         /\ args' = p.rest
         /\ pc' = "parsed"
    /\ UNCHANGED <<osArgs, commands, cmd, name, parses, miss, findCalls,
                   clients, runs, hret, out, exit>>
    /\ UNCHANGED <<sfVars, bfVars>>

\* if globalFlags.Version { printVersion(out); os.Exit(OK) }
VersionExit ==
    /\ pc = "parsed"
    /\ globalFlags.Version
    /\ out' = out \o printVersion
    /\ exit' = <<OK>>
    /\ pc' = "exited"
    /\ UNCHANGED <<osArgs, commands, globalFlags, given, args, cmd, name, parses, miss,
                   findCalls, clients, runs, hret>>
    /\ UNCHANGED <<sfVars, bfVars>>

\* if globalFlags.Help { printGlobalUsage(); os.Exit(OK) }
HelpExit ==
    /\ pc = "parsed"
    /\ ~globalFlags.Version
    /\ globalFlags.Help
    /\ out' = out \o printGlobalUsage
    /\ exit' = <<OK>>
    /\ pc' = "exited"
    /\ UNCHANGED <<osArgs, commands, globalFlags, given, args, cmd, name, parses, miss,
                   findCalls, clients, runs, hret>>
    /\ UNCHANGED <<sfVars, bfVars>>

\* DefaultArgs as it would be without the append of "help"
DefaultArgsNone(a) == a

\* no command specified - trigger help
DefaultArgs(a) == IF Len(a) < 1 THEN Append(a, "help") ELSE a

\* args defaulted, then cmd, name := findCommand("", args, commands),
\* including the os.Exit(ERROR_USAGE) inside findCommand
ResolveStep ==
    /\ pc = "parsed"
    /\ args' = DefaultArgs(args)
    /\ findCalls' = findCalls + 1
    /\ LET r == findCommand("", args', commands) IN
         /\ parses' = r.parses
         /\ miss' = r.miss
         /\ IF r.exited
              THEN /\ out' = out \o flagFailure(r.usage.Name)
                                 \o printCommandUsage(r.usage)
                   /\ exit' = <<ERROR_USAGE>>
                   /\ pc' = "exited"
                   /\ UNCHANGED <<cmd, name>>
              ELSE /\ cmd' = r.cmd
                   /\ name' = r.name
                   /\ pc' = "resolved"
                   /\ UNCHANGED <<out, exit>>
    /\ UNCHANGED <<osArgs, commands, globalFlags, given, clients, runs, hret>>
    /\ UNCHANGED <<sfVars, bfVars>>

\* Resolve as it would be if the --version and --help branches did not exit
ResolveUnguarded == ResolveStep

\* main reaches findCommand only past the --version and --help exits
Resolve ==
    /\ ~globalFlags.Version
    /\ ~globalFlags.Help
    /\ ResolveStep

\* if cmd == nil: the diagnostic, the hint, os.Exit(ERROR_NO_COMMAND)
UnknownCommand ==
    /\ pc = "resolved"
    /\ cmd.nil
    /\ out' = out \o <<Printed("unknown", name), Printed("hint", cliName)>>
    /\ exit' = <<ERROR_NO_COMMAND>>
    /\ pc' = "exited"
    /\ UNCHANGED <<osArgs, commands, globalFlags, given, args, cmd, name, parses, miss,
                   findCalls, clients, runs, hret>>
    /\ UNCHANGED <<sfVars, bfVars>>

\* if cmd.Run == nil { printCommandUsage(cmd); os.Exit(ERROR_USAGE) }
NoHandler ==
    /\ pc = "resolved"
    /\ ~cmd.nil
    /\ ~cmd.Run
    /\ out' = out \o printCommandUsage(cmd)
    /\ exit' = <<ERROR_USAGE>>
    /\ pc' = "exited"
    /\ UNCHANGED <<osArgs, commands, globalFlags, given, args, cmd, name, parses, miss,
                   findCalls, clients, runs, hret>>
    /\ UNCHANGED <<sfVars, bfVars>>

\* the arguments handle passes to the handler: f.Args() of cmd.Flags
HandlerArgs(c, ps) == FlagArgs(ps, c.Name)

\* what update.New(client) can return
UpdateNewResults == {"ok", "error"}

\* handle(cmd.Run)(&cmd.Flags): the client is built, update.New succeeds and
\* the handler runs and returns r
Handle ==
    /\ pc = "resolved"
    /\ ~cmd.nil
    /\ cmd.Run
    /\ "ok" \in UpdateNewResults
    /\ clients' = clients + 1
    /\ \E r \in ExitCodes :
         /\ runs' = Append(runs, <<cmd.Name, HandlerArgs(cmd, parses)>>)
         /\ hret' = <<r>>
    /\ pc' = "handled"
    /\ UNCHANGED <<osArgs, commands, globalFlags, given, args, cmd, name, parses, miss,
                   findCalls, out, exit>>
    /\ UNCHANGED <<sfVars, bfVars>>

\* handle(cmd.Run)(&cmd.Flags): the client is built, update.New returns an
\* error and log.Fatal ends the process
HandleFatal ==
    /\ pc = "resolved"
    /\ ~cmd.nil
    /\ cmd.Run
    /\ "error" \in UpdateNewResults
    /\ clients' = clients + 1
    /\ out' = out \o <<Printed("fatal", cliName)>>
    /\ exit' = <<FatalExit>>
    /\ pc' = "exited"
    /\ UNCHANGED <<osArgs, commands, globalFlags, given, args, cmd, name, parses, miss,
                   findCalls, runs, hret>>
    /\ UNCHANGED <<sfVars, bfVars>>

\* ExitOf as it would be if every failure were reported as ERROR_API
ExitOfTranslated(r) == IF r = OK THEN OK ELSE ERROR_API

\* the exit code main gives os.Exit for the handler's return value
ExitOf(r) == r
\* whether main prints cmd's usage for the handler's return value
UsageAfter(r) == r = ERROR_USAGE

\* if exit == ERROR_USAGE { printCommandUsage(cmd) }; os.Exit(exit)
Finish ==
    /\ pc = "handled"
    /\ out' = IF UsageAfter(hret[1]) THEN out \o printCommandUsage(cmd) ELSE out
    /\ exit' = <<ExitOf(hret[1])>>
    /\ pc' = "exited"
    /\ UNCHANGED <<osArgs, commands, globalFlags, given, args, cmd, name, parses, miss,
                   findCalls, clients, runs, hret>>
    /\ UNCHANGED <<sfVars, bfVars>>

\* ------------------------------------------------------- StringFlag
StringInputs == {"", "a", "b"}

\* StringFlagSet as it would be if an empty value were not stored
StringFlagSetNonEmpty(value, v) ==
    [value |-> IF v = "" THEN value ELSE <<v>>, res |-> "ok"]

\* (f *StringFlag) Set: f.value = &value; return nil
StringFlagSet(value, v) == [value |-> <<v>>, res |-> "ok"]
\* (f *StringFlag) Get
StringFlagGet(value) == value
\* (f *StringFlag) String
StringFlagString(value) == IF value # <<>> THEN value[1] ELSE ""

InitStringFlag ==
    /\ sfValue = <<>>
    /\ sfSets = 0
    /\ sfLast = <<>>
    /\ sfErr = "none"

StringSet ==
    /\ sfSets < MaxSets
    /\ \E v \in StringInputs :
         LET r == StringFlagSet(sfValue, v) IN
           /\ sfValue' = r.value
           /\ sfErr' = r.res
           /\ sfLast' = <<v>>
    /\ sfSets' = sfSets + 1
    /\ UNCHANGED <<mainVars, bfVars>>

\* --------------------------------------------------------- BoolFlag
falseVals == <<"0", "f", "false", "FALSE", "False">>
truthVals == <<"1", "t", "true", "TRUE", "True">>
Range(list) == {list[i] : i \in 1..Len(list)}
BoolInputs == Range(falseVals) \cup Range(truthVals) \cup {"yes", ""}

\* the first loop: *f.value = false, a nil pointer dereference (a panic)
\* when f.value is nil
FalseLoop(value, v) ==
    IF v \in Range(falseVals)
      THEN IF value = <<>> THEN [value |-> value, panic |-> TRUE]
           ELSE [value |-> <<FALSE>>, panic |-> FALSE]
      ELSE [value |-> value, panic |-> FALSE]

\* the second loop: f.value = new(bool); *f.value = true
TruthLoop(value, v) ==
    IF v \in Range(truthVals) THEN <<TRUE>> ELSE value

\* the final test: an error only if f.value == nil
SetResult(value) == IF value = <<>> THEN "error" ELSE "ok"

\* (f *BoolFlag) Set
BoolFlagSet(value, v) ==
    LET a == FalseLoop(value, v) IN
      IF a.panic THEN [value |-> value, res |-> "panic"]
      ELSE LET b == TruthLoop(a.value, v) IN
             [value |-> b, res |-> SetResult(b)]

\* (f *BoolFlag) Get
BoolFlagGet(value) == value

InitBoolFlag ==
    /\ bfValue = <<>>
    /\ bfPrev = <<>>
    /\ bfSets = 0
    /\ bfArg = <<>>
    /\ bfRes = "none"

\* one call of Set; a panic ends the process, so no call follows it
BoolSet ==
    /\ bfSets < MaxSets
    /\ bfRes # "panic"
    /\ \E v \in BoolInputs :
         LET r == BoolFlagSet(bfValue, v) IN
           /\ bfValue' = r.value
           /\ bfRes' = r.res
           /\ bfArg' = <<v>>
    /\ bfPrev' = bfValue
    /\ bfSets' = bfSets + 1
    /\ UNCHANGED <<mainVars, sfVars>>

\* ------------------------------------------------------ specifications
Init == InitMain /\ InitStringFlag /\ InitBoolFlag

Next ==
    \/ GlobalParseExit
    \/ GlobalParse
    \/ VersionExit
    \/ HelpExit
    \/ Resolve
    \/ UnknownCommand
    \/ NoHandler
    \/ Handle
    \/ HandleFatal
    \/ Finish

\* one run of main on any command line
Spec == Init /\ [][Next]_vars

InitFlags ==
    /\ InitMain
    /\ osArgs = <<>>
    /\ commands = <<cmdApp(FALSE), cmdHelp>>
    /\ InitStringFlag
    /\ InitBoolFlag

NextFlags == StringSet \/ BoolSet

\* any sequence of Set calls on one StringFlag and one BoolFlag
SpecFlags == InitFlags /\ [][NextFlags]_vars

\* --------------------------------------------------------- type check
TypeOK ==
    /\ pc \in {"start", "parsed", "resolved", "handled", "exited"}
    /\ exit \in {<<>>} \cup {<<c>> : c \in ExitCodes}
    /\ (pc = "exited") <=> (exit # <<>>)
    /\ findCalls \in 0..1
    /\ clients \in 0..1
    /\ Len(runs) <= 1

\* ------------------------------------------------------------ claims
Exited == pc = "exited"
\* findCommand was called and returned to main
Returned == pc \in {"resolved", "handled"} \/ (Exited /\ findCalls = 1 /\
              (parses = <<>> \/ parses[Len(parses)].ok))
UsageOf(n) == Printed("usage", n)
UnknownOut(n) == <<Printed("unknown", n), Printed("hint", cliName)>>
IsTopLevel(n) == \E i \in 1..Len(commands) : commands[i].Name = n

\* C1 (as stated): findCommand compares args[0] alone with each candidate's
\* Name: whenever the first word names a top-level command and the first word
\* its flag set leaves names one of its children by the child's own word,
\* main gets that child and the name "<parent> <child>".
C1_TokenAloneMatches ==
    Returned =>
      \A i \in 1..Len(commands) :
        LET c == commands[i]
            rest == FlagArgs(parses, c.Name)
        IN (args[1] = c.Name /\ Len(rest) >= 1) =>
             \A j \in 1..Len(c.Subcommands) :
               c.Subcommands[j].Name = rest[1] =>
                 /\ cmd = c.Subcommands[j]
                 /\ name = c.Name \o " " \o rest[1]

\* C1 (amended): findCommand compares the accumulated path (the parent's path,
\* a space, args[0]) with each candidate's Name: whenever the first word names
\* a top-level command and the path made of it and the next word left by its
\* flag set is the Name of one of its children, main gets that child and that
\* path as the name; a child named by its own word alone is never the result.
C1_PathMatches ==
    Returned =>
      /\ \A i \in 1..Len(commands) :
           LET c == commands[i]
               rest == FlagArgs(parses, c.Name)
           IN (args[1] = c.Name /\ Len(rest) >= 1) =>
                \A j \in 1..Len(c.Subcommands) :
                  c.Subcommands[j].Name = c.Name \o " " \o rest[1] =>
                    /\ cmd = c.Subcommands[j]
                    /\ name = c.Subcommands[j].Name
      /\ cmd # cmdList

C1_Witness ==
    /\ pc = "resolved"
    /\ args = <<"app", "-v", "list">>
    /\ cmd = cmdAppList
    /\ name = "app list"

\* C2: when the first argument left by the global flags is the Name of no
\* top-level command, findCommand returns nil and that word as the name, and
\* main exits with ERROR_NO_COMMAND having parsed no command flag set, built
\* no client and run no handler.
C2_UnknownTopLevel ==
    (findCalls = 1 /\ ~IsTopLevel(args[1])) =>
      /\ cmd.nil
      /\ name = args[1]
      /\ parses = <<>>
      /\ clients = 0
      /\ runs = <<>>
      /\ pc \in {"resolved", "exited"}
      /\ Exited => exit = <<ERROR_NO_COMMAND>>

C2_Witness ==
    /\ Exited
    /\ args = <<"x", "app", "-bogus">>
    /\ name = "x"
    /\ exit = <<ERROR_NO_COMMAND>>

\* C3: when a matched command's flag set fails to parse, at any level, the
\* process has exited with ERROR_USAGE, the only usage printed is that
\* command's, no flag set was parsed after it and no handler or client ran.
C3_ParseFailureIsUsageError ==
    \A k \in 1..Len(parses) :
      ~parses[k].ok =>
        /\ k = Len(parses)
        /\ Exited
        /\ exit = <<ERROR_USAGE>>
        /\ out = <<Printed("flagError", parses[k].of), UsageOf(parses[k].of)>>
        /\ clients = 0
        /\ runs = <<>>

C3_Witness ==
    /\ Exited
    /\ Len(parses) = 2
    /\ parses[2].of = "app list"
    /\ ~parses[2].ok
    /\ exit = <<ERROR_USAGE>>
    /\ UsageOf("app list") = out[Len(out)]

\* C4 (as stated): whenever a scan of findCommand matches no candidate, at the
\* top level or below a matched command, the run ends with the unknown
\* subcommand diagnostic, the hint and ERROR_NO_COMMAND.
C4_AnyMissIsUnknownCommand ==
    (Exited /\ miss # 0) =>
      /\ exit = <<ERROR_NO_COMMAND>>
      /\ out = UnknownOut(name)

\* C4 (amended): a miss at the top level ends the run with the diagnostic, the
\* hint and ERROR_NO_COMMAND; a miss below a matched command does not: the
\* deepest matched command is the result, the unmatched word is the first of
\* its positional arguments, and the run ends as for that command (its usage
\* and ERROR_USAGE if it has no handler, else through handle).
C4_OnlyTopLevelMissIsUnknown ==
    /\ (Exited /\ miss = 1) =>
         /\ exit = <<ERROR_NO_COMMAND>>
         /\ out = UnknownOut(args[1])
    /\ (Exited /\ miss > 1) =>
         /\ ~cmd.nil
         /\ \A k \in 1..Len(out) : out[k].k \notin {"unknown", "hint"}
         /\ name = cmd.Name \o " " \o FlagArgs(parses, cmd.Name)[1]
         /\ ~cmd.Run => (exit = <<ERROR_USAGE>> /\ out = <<UsageOf(cmd.Name)>>)
         /\ cmd.Run => clients = 1
         /\ runs # <<>> => runs = <<<<cmd.Name, FlagArgs(parses, cmd.Name)>>>>

C4_Witness ==
    /\ Exited
    /\ miss = 2
    /\ args = <<"app", "x">>
    /\ runs = <<<<"app", <<"x">>>>>>
    /\ exit = <<OK>>

\* C5 (as stated): in every run in which --version or --help was set, the run
\* ends with exit code OK after printing the version or the global usage, and
\* findCommand was not called, no client built and no handler run.
C5_VersionHelpAlwaysExitOK ==
    (Exited /\ (globalFlags.Version \/ globalFlags.Help)) =>
      /\ exit = <<OK>>
      /\ out \in {printVersion, printGlobalUsage}
      /\ findCalls = 0
      /\ clients = 0
      /\ runs = <<>>

\* C5 (amended): in every run in which --version or --help was set,
\* findCommand is never called, no client is built and no handler runs; when
\* the parse of the global flags succeeded the run ends with exit code OK
\* after printing the version if --version was set and the global usage
\* otherwise; when it failed on a later word, the run ends with the flag
\* package's exit code 2 and neither is printed.
C5_ShortCircuit ==
    (globalFlags.Version \/ globalFlags.Help) =>
      /\ findCalls = 0
      /\ clients = 0
      /\ runs = <<>>
      /\ parses = <<>>
      /\ Exited =>
           IF FlagSetParse(globalFlagSet, osArgs).err = "none"
             THEN /\ exit = <<OK>>
                  /\ out = IF globalFlags.Version THEN printVersion
                           ELSE printGlobalUsage
             ELSE /\ exit = <<FlagExit>>
                  /\ out = flagFailure(cliName)

C5_Witness ==
    /\ Exited
    /\ osArgs = <<"--help", "--version", "app">>
    /\ exit = <<OK>>
    /\ out = printVersion
    /\ findCalls = 0

\* C6: a run left with no argument by the global flags and a run left with
\* the one argument "help" have the same outcome: the help command is
\* resolved, its handler gets no positional argument, and the exit code and
\* the output follow from the handler's return value in the same way.
C6_NoArgsIsHelp ==
    (findCalls = 1 /\ given \in {<<>>, <<"help">>}) =>
      /\ args = <<"help">>
      /\ cmd = cmdHelp
      /\ name = "help"
      /\ parses = <<[of |-> "help", args |-> <<>>, ok |-> TRUE]>>
      /\ pc = "handled" => runs = <<<<"help", <<>>>>>>
      /\ Exited =>
           \/ /\ runs = <<>>
              /\ exit = <<FatalExit>>
              /\ out = <<Printed("fatal", cliName)>>
           \/ /\ runs = <<<<"help", <<>>>>>>
              /\ exit = hret
              /\ out = IF hret = <<ERROR_USAGE>> THEN <<UsageOf("help")>>
                       ELSE <<>>

C6_Witness ==
    /\ Exited
    /\ given = <<>>
    /\ osArgs = <<"--user", "x">>
    /\ runs = <<<<"help", <<>>>>>>
    /\ exit = <<ERROR_API>>

\* C10 (as stated): when main gets a command that has a handler, the handler
\* is invoked exactly once with the command's remaining arguments, the exit
\* code is the handler's return value, and the command's usage is printed
\* exactly when that value is ERROR_USAGE.
C10_HandlerAlwaysRuns ==
    (Exited /\ ~cmd.nil /\ cmd.Run) =>
      /\ runs = <<<<cmd.Name, FlagArgs(parses, cmd.Name)>>>>
      /\ exit = hret
      /\ (out = <<UsageOf(cmd.Name)>>) <=> (hret = <<ERROR_USAGE>>)
      /\ out \in {<<>>, <<UsageOf(cmd.Name)>>}

\* C10 (amended): when main gets a command that has a handler and update.New
\* returns no error, the handler is invoked exactly once with the command's
\* remaining arguments, the exit code is the handler's return value, and the
\* command's usage is printed exactly when that value is ERROR_USAGE; when
\* update.New returns an error the handler is not invoked and log.Fatal ends
\* the process with exit code 1.
C10_HandlerResultIsExitCode ==
    (Exited /\ ~cmd.nil /\ cmd.Run) =>
      \/ /\ runs = <<>>
         /\ hret = <<>>
         /\ exit = <<FatalExit>>
         /\ out = <<Printed("fatal", cliName)>>
      \/ /\ runs = <<<<cmd.Name, FlagArgs(parses, cmd.Name)>>>>
         /\ exit = hret
         /\ (out = <<UsageOf(cmd.Name)>>) <=> (hret = <<ERROR_USAGE>>)
         /\ out \in {<<>>, <<UsageOf(cmd.Name)>>}

C10_Witness ==
    /\ Exited
    /\ cmd = cmdAppList
    /\ runs = <<<<"app list", <<"x">>>>>>
    /\ hret = <<ERROR_USAGE>>
    /\ exit = <<ERROR_USAGE>>
    /\ out = <<UsageOf("app list")>>

\* C7: Set with a truthy literal returns no error and leaves true, Set with a
\* falsy literal returns no error and leaves false, whatever the value before.
C7_LiteralsAlwaysSet ==
    bfSets > 0 =>
      /\ bfArg[1] \in Range(truthVals) => (bfRes = "ok" /\ bfValue = <<TRUE>>)
      /\ bfArg[1] \in Range(falseVals) => (bfRes = "ok" /\ bfValue = <<FALSE>>)

\* C8: Set with a string of neither list returns the format error and leaves
\* the value as it was, after any earlier Set calls.
C8_OtherStringsAreErrors ==
    (bfSets > 0 /\ bfArg[1] \notin Range(truthVals) \cup Range(falseVals)) =>
      /\ bfRes = "error"
      /\ bfValue = bfPrev

\* C9: Get is nil exactly when Set was never called; every Set succeeds and
\* then String() is the latest argument, also for the empty string, while
\* String() of a never-set flag is empty too.
C9_StringFlagPresence ==
    /\ (StringFlagGet(sfValue) = <<>>) <=> (sfSets = 0)
    /\ sfSets > 0 => /\ sfErr = "ok"
                     /\ StringFlagGet(sfValue) = sfLast
                     /\ StringFlagString(sfValue) = sfLast[1]
    /\ sfSets = 0 => StringFlagString(sfValue) = ""

C9_Witness ==
    /\ sfSets = 2
    /\ sfLast = <<"">>
    /\ StringFlagGet(sfValue) # <<>>
    /\ StringFlagString(sfValue) = ""

====
